---- MODULE Spec2Model ----
(***************************************************************************)
(* keteparaha: the page/component registry, the constructors of Page and   *)
(* Component, get_component(s) and the click family of _SeleniumWrapper    *)
(* (src/keteparaha/page.py), driven against one browser; the flow control  *)
(* wrappers (flow.py), the browser test case and its snapshot decorator    *)
(* (browser.py) and the Gmail IMAP client (email_client.py).               *)
(*                                                                         *)
(* A Python string is a sequence of tokens (each token a run of            *)
(* characters that holds no "?" unless it is the token "?" itself), so     *)
(* that str.split('?') is computed and not assumed.  '' is <<>>.           *)
(***************************************************************************)
EXTENDS Integers, Sequences, FiniteSets, TLC

\* ------------------------------------------------------------------ bounds
MaxClasses == 6     \* classes that exist at once (static + dynamic)
MaxObjs == 2        \* page/component objects the test keeps a reference to
MaxElems == 2       \* elements the DOM holds for one selector

\* ------------------------------------------------------------------ strings
Empty == <<>>               \* ''
None == <<"None">>          \* Python's None (kept apart from every string)
Truthy(s) == s # None /\ s # Empty

\* index of the first token t of s, 0 when there is none
FirstIdx(s, t) ==
    IF \E i \in 1..Len(s) : s[i] = t
    THEN CHOOSE i \in 1..Len(s) : s[i] = t /\ \A j \in 1..(i - 1) : s[j] # t
    ELSE 0

\* s.split(t)[0]
split0(s, t) == IF FirstIdx(s, t) = 0 THEN s ELSE SubSeq(s, 1, FirstIdx(s, t) - 1)

\* urls of the test pages (tests/test_page.py) and places a click can lead to
HomeUrl == <<"https://obviously-not-real.com/">>
CoolUrl == <<"https://obviously-not-real.com/path">>
CoolQueryUrl == CoolUrl \o <<"?", "search=hello">>
PatternUrl == <<"/s/", "([0-9]{4})", "/", "(", "?", "P<slug>[\\w]+)", "/$">>
ArticleUrl == <<"/s/", "9999", "/", "thisisthearticle", "/">>
ArticleQueryUrl == ArticleUrl \o <<"?", "hello=world&testers=are_people", "#fragment">>
BlankUrl == Empty

\* where a click can take the browser (besides leaving it where it is)
NavTargets == {CoolUrl, CoolQueryUrl, ArticleQueryUrl}

\* selectors
ModalSel == <<"#modal-id">>
BtnSel == <<".btn">>

\* the strings a test passes as selector or opens
StrArgs == {ModalSel, BtnSel, Empty}

\* the texts a test passes to click_link and click_button
LinkTexts == {<<"button text">>}

\* ------------------------------------------------------------------ classes
Class(kind, name, url, selector) ==
    [kind |-> kind, name |-> name, url |-> url, selector |-> selector]

\* the url and selector of a class are what its own body binds to these names
\* (dct.get in _RegistryMeta.__init__), None when it binds nothing; the body
\* of Component binds url to a property object
UrlProperty == <<"<property>">>
ComponentBase == Class("Component", "Component", UrlProperty, None)
PageBase == Class("Page", "Page", None, None)
HomePage == Class("Page", "HomePage", HomeUrl, None)
CoolPage == Class("Page", "CoolPage", CoolUrl, None)
ComplexPathPage == Class("Page", "ComplexPathPage", PatternUrl, None)
Modal == Class("Component", "Modal", None, ModalSel)

\* class statements that may still execute (a test module imported later)
ClassDefs == {ComplexPathPage}

\* further class statements: a second component with Modal's selector and a
\* page base class that declares neither url nor selector
ModalDialog == Class("Component", "ModalDialog", None, ModalSel)
BasePage == Class("Page", "BasePage", None, None)
RegistryDefs == ClassDefs \cup {ModalDialog, BasePage}

VARIABLES
    classes,        \* the classes that exist, in order of creation
    store,          \* _Registry.store: key -> index into classes
    objs,           \* the objects the test holds: index = identity
    wdo_driver,     \* WebDriverOnly.driver, shared by every Page
    current_url,    \* the browser's current_url
    last,           \* the last call: its arguments, what it did and returned
    entry,          \* the running call of enter_text and the calls it made
    wrapper,        \* flow.py: the running call of a retry or ignore wrapper
    testcase,       \* browser.py: the attributes of a BrowserTestCase
    run,            \* browser.py: the last call made on the test case
    gmail,          \* email_client.py: the attributes of a GmailImapClient
    connections,    \* email_client.py: the IMAPClient objects created so far
    imap            \* email_client.py: the last call and the IMAP calls it made

pageVars == <<classes, store, objs, wdo_driver, current_url, last, entry>>
flowVars == <<wrapper>>
browserVars == <<testcase, run>>
mailVars == <<gmail, connections, imap>>

vars == <<pageVars, flowVars, browserVars, mailVars>>

\* ------------------------------------------------------------------ registry
\* _Registry.__setitem__
Registry__setitem__(st, key, value) ==
    [k \in (DOMAIN st) \cup {key} |-> IF k = key THEN value ELSE st[k]]

\* a __delitem__ that deletes
Registry__delitem__removes(st, key) == [k \in (DOMAIN st) \ {key} |-> st[k]]

\* _Registry.__delitem__ : pass
Registry__delitem__(st, key) == st

\* _Registry.__contains__ (Mapping mixin: try self[key], KeyError -> False)
Registry__contains__(st, key) == key \in DOMAIN st

\* _RegistryMeta.__init__ : R is [classes, store], c the class being created
RegistryMeta__init__(R, c) ==
    LET n == Len(R.classes) + 1
        cs == Append(R.classes, c)
    IN  IF Truthy(c.url)
        THEN [classes |-> cs, store |-> Registry__setitem__(R.store, c.url, n)]
        ELSE IF Truthy(c.selector)
        THEN [classes |-> cs, store |-> Registry__setitem__(R.store, c.selector, n)]
        ELSE [classes |-> cs, store |-> R.store]

\* a make_class whose class never reaches the registry
make_class_unregistered(R, selector) ==
    [R |-> [classes |-> Append(R.classes,
                               Class("Component", "DynamicComponent", None, selector)),
            store |-> R.store],
     cls |-> Len(R.classes) + 1]

\* _Registry.make_class
make_class(R, selector) ==
    [R |-> RegistryMeta__init__(R, Class("Component", "DynamicComponent", None, selector)),
     cls |-> Len(R.classes) + 1]

\* a registry that never looks the selector up
Registry__call__always_new(R, selector) == make_class(R, selector)

\* _Registry.__call__
Registry__call__(R, selector) ==
    IF selector \in DOMAIN R.store
    THEN [R |-> R, cls |-> R.store[selector]]
    ELSE make_class(R, selector)

Reg == [classes |-> classes, store |-> store]

RECURSIVE DefineAll(_, _)
DefineAll(R, cs) ==
    IF cs = <<>> THEN R ELSE DefineAll(RegistryMeta__init__(R, Head(cs)), Tail(cs))

\* the index of Component, the first class page.py creates
ComponentCls == 1

\* the classes page.py and the test module define on import
InitReg ==
    DefineAll([classes |-> <<>>, store |-> <<>>],
              <<ComponentBase, PageBase, HomePage, CoolPage, Modal>>)

\* ------------------------------------------------------------------ objects
\* what an object was handed from the location it was made for: Page.__init__
\* and Component.__init__ call no setup hook and store nothing of the kind
NoSetup == [called |-> FALSE, args |-> <<>>, kwargs |-> {}]

\* the attributes Page.__init__ leaves on a page of class c
PageObj(c) ==
    [kind |-> "Page", cls |-> c, parent |-> 0, find_by |-> "selector",
     index_position |-> -1, setup |-> NoSetup]

\* Component.__init__
Component__init__(c, parent, find_by) ==
    [kind |-> "Component", cls |-> c, parent |-> parent, find_by |-> find_by,
     index_position |-> -1, setup |-> NoSetup]

\* Component.page / Page.page
RECURSIVE page(_, _)
page(os, i) == IF os[i].kind = "Page" THEN i ELSE page(os, os[i].parent)

\* _SeleniumWrapper.location
location(cu) == split0(cu, "?")

\* ------------------------------------------------------------------ calls
Arg(t, s, c, o) == [t |-> t, s |-> s, c |-> c, o |-> o]
NoArg == Arg("none", Empty, 0, 0)
StrArg(s) == Arg("str", s, 0, 0)
ClsArg(c) == Arg("cls", Empty, c, 0)
InstArg(o) == Arg("inst", Empty, 0, o)

NoCall ==
    [op |-> "", caller |-> 0, sel |-> NoArg, opens |-> NoArg, cls |-> 0,
     pre |-> BlankUrl, at |-> BlankUrl, store |-> <<>>, n0 |-> 0,
     element |-> "", elements |-> 0,
     clicked |-> FALSE, nav |-> FALSE, exc |-> "", ref |-> 0, out |-> <<>>,
     component |-> <<>>]

\* no call is waiting for the test to look at its result
Idle == last.op = ""

\* a constructor that compares the whole current_url with the url
Page__init__unstripped(c, driver, cu) ==
    LET url == classes[c].url
    IN  IF driver \notin {"WebDriver", "WebElement"}
        THEN [exc |-> "AttributeError", nav |-> FALSE, current_url |-> cu]
        ELSE IF url = None
        THEN [exc |-> "AttributeError", nav |-> FALSE, current_url |-> cu]
        ELSE IF cu # url
        THEN [exc |-> "", nav |-> TRUE, current_url |-> url]
        ELSE [exc |-> "", nav |-> FALSE, current_url |-> cu]

\* Page.__init__ : c the class, driver what was passed ("WebDriver" or, from
\* a component, the "WebElement" of its parent)
Page__init__(c, driver, cu) ==
    LET url == classes[c].url
    IN  IF driver \notin {"WebDriver", "WebElement"}
        THEN [exc |-> "AttributeError", nav |-> FALSE, current_url |-> cu]
        ELSE IF url = None
        THEN [exc |-> "AttributeError", nav |-> FALSE, current_url |-> cu]
        ELSE IF location(cu) # url
        THEN [exc |-> "", nav |-> TRUE, current_url |-> url]
        ELSE [exc |-> "", nav |-> FALSE, current_url |-> cu]

PageInit ==
    /\ classes = InitReg.classes
    /\ store = InitReg.store
    /\ objs = <<>>
    /\ wdo_driver = "unset"
    /\ current_url = BlankUrl
    /\ last = NoCall

\* a class statement executes: type.__new__ then _RegistryMeta.__init__
DefineClass(c) ==
    /\ Idle
    /\ Len(classes) < MaxClasses
    /\ \A i \in 1..Len(classes) : classes[i] # c
    /\ LET R == RegistryMeta__init__(Reg, c)
       IN  /\ classes' = R.classes
           /\ store' = R.store
    /\ UNCHANGED <<objs, wdo_driver, current_url, last>>
    /\ UNCHANGED <<entry, flowVars, browserVars, mailVars>>

\* del registry[key]
DeleteKey(key) ==
    /\ Idle
    /\ store' = Registry__delitem__(store, key)
    /\ last' = [NoCall EXCEPT !.op = "__delitem__", !.sel = StrArg(key),
                              !.store = store, !.n0 = Len(classes)]
    /\ UNCHANGED <<classes, objs, wdo_driver, current_url>>
    /\ UNCHANGED <<entry, flowVars, browserVars, mailVars>>

\* the test creates a page: PageClass(driver)
NewPage(c) ==
    /\ Idle
    /\ classes[c].kind = "Page"
    /\ \E r \in {Page__init__(c, "WebDriver", current_url)} :
           /\ current_url' = r.current_url
           /\ wdo_driver' = "WebDriver"
           /\ last' = [NoCall EXCEPT !.op = "Page", !.cls = c, !.pre = current_url,
                                     !.at = current_url, !.store = store,
                                     !.n0 = Len(classes), !.nav = r.nav,
                                     !.exc = r.exc,
                                     !.out = IF r.exc = "" THEN <<PageObj(c)>> ELSE <<>>]
    /\ UNCHANGED <<classes, store, objs>>
    /\ UNCHANGED <<entry, flowVars, browserVars, mailVars>>

\* what the DOM can hold for a selector: nothing matches '' or None
ElementCounts(selector) == IF Truthy(selector) THEN 0..MaxElems ELSE {0}

\* _SeleniumWrapper._get_component_class
_get_component_class(R, component_or_selector) ==
    IF component_or_selector.t = "cls"
       /\ R.classes[component_or_selector.c].kind = "Component"
    THEN [R |-> R, cls |-> component_or_selector.c]
    ELSE Registry__call__(R, component_or_selector.s)

\* _SeleniumWrapper.get_component: the constructor looks nothing up, so the
\* TimeoutException the method catches is never raised
get_component(R, self, component_or_selector) ==
    LET r == _get_component_class(R, component_or_selector)
    IN  [R |-> r.R, cls |-> r.cls, exc |-> "",
         out |-> <<Component__init__(r.cls, self, "selector")>>]

\* the loop without the assignment to _index_position
RECURSIVE get_components_loop_unindexed(_, _, _, _, _, _)
get_components_loop_unindexed(R, self, component_or_selector, n, idx, components) ==
    IF idx >= n THEN [R |-> R, out |-> components]
    ELSE LET r == _get_component_class(R, component_or_selector)
             comp_inst == Component__init__(r.cls, self, "index_position")
         IN  get_components_loop_unindexed(r.R, self, component_or_selector, n,
                                           idx + 1, Append(components, comp_inst))

\* the for loop of get_components over the elements idx .. n-1
RECURSIVE get_components_loop(_, _, _, _, _, _)
get_components_loop(R, self, component_or_selector, n, idx, components) ==
    IF idx >= n THEN [R |-> R, out |-> components]
    ELSE LET r == _get_component_class(R, component_or_selector)
             comp_inst == [Component__init__(r.cls, self, "index_position")
                               EXCEPT !.index_position = idx]
         IN  get_components_loop(r.R, self, component_or_selector, n, idx + 1,
                                 Append(components, comp_inst))

\* _SeleniumWrapper.get_components: n elements match (0: TimeoutException)
get_components(R, self, component_or_selector, n) ==
    LET r == _get_component_class(R, component_or_selector)
    IN  IF n = 0 THEN [R |-> r.R, cls |-> r.cls, out |-> <<>>]
        ELSE LET l == get_components_loop(r.R, self, component_or_selector, n, 0, <<>>)
             IN  [R |-> l.R, cls |-> r.cls, out |-> l.out]

\* the component classes a test can pass: those that name a selector
ComponentClasses == {c \in 1..Len(classes) :
                        classes[c].kind = "Component" /\ classes[c].selector # None}

ComponentArgs == {StrArg(s) : s \in StrArgs} \cup {ClsArg(c) : c \in ComponentClasses}

\* the selector get_component(s) looks for
SelectorOf(a) == IF a.t = "cls" THEN classes[a.c].selector ELSE a.s

GetComponent(self, a, n) ==
    /\ Idle
    /\ \E r \in {get_component(Reg, self, a)} :
           /\ Len(r.R.classes) <= MaxClasses
           /\ classes' = r.R.classes
           /\ store' = r.R.store
           /\ last' = [NoCall EXCEPT !.op = "get_component", !.caller = self,
                                     !.sel = a, !.cls = r.cls, !.pre = current_url,
                                     !.at = current_url, !.store = store,
                                     !.n0 = Len(classes), !.elements = n,
                                     !.exc = r.exc, !.out = r.out]
    /\ UNCHANGED <<objs, wdo_driver, current_url>>
    /\ UNCHANGED <<entry, flowVars, browserVars, mailVars>>

GetComponents(self, a, n) ==
    /\ Idle
    /\ \E r \in {get_components(Reg, self, a, n)} :
           /\ Len(r.R.classes) <= MaxClasses
           /\ classes' = r.R.classes
           /\ store' = r.R.store
           /\ last' = [NoCall EXCEPT !.op = "get_components", !.caller = self,
                                     !.sel = a, !.cls = r.cls, !.pre = current_url,
                                     !.at = current_url, !.store = store,
                                     !.n0 = Len(classes), !.elements = n, !.out = r.out]
    /\ UNCHANGED <<objs, wdo_driver, current_url>>
    /\ UNCHANGED <<entry, flowVars, browserVars, mailVars>>

\* ------------------------------------------------------------------ clicks
\* what a call hands back: the registry, the exception raised ("" for none),
\* whether the element was clicked, where the browser is, whether driver.get
\* was called, the existing object returned (ref) or the new one (out), and
\* the component whose element was clicked (component, <<>> for none)
Outcome(R, exc, clicked, cu, nav, ref, out) ==
    [R |-> R, exc |-> exc, clicked |-> clicked, current_url |-> cu, nav |-> nav,
     ref |-> ref, out |-> out, component |-> <<>>]

\* self.url: the url of the class of the page the object is in
url(self) == classes[objs[page(objs, self)].cls].url

\* self._driver: the WebDriver for a page, the parent's element for a component
_driver(self) == IF objs[self].kind = "Page" THEN wdo_driver ELSE "WebElement"

\* _click, line 274: a new page of the class registered for the location loc
_click_new_page(R, self, cu, loc) ==
    LET r == Registry__call__(R, loc)
    IN  IF R.classes[r.cls].kind = "Page"
        THEN LET p == Page__init__(r.cls, _driver(self), cu)
             IN  Outcome(r.R, p.exc, TRUE, p.current_url, p.nav, 0,
                         IF p.exc = "" THEN <<PageObj(r.cls)>> ELSE <<>>)
        ELSE Outcome(r.R, "TypeError", TRUE, cu, FALSE, 0, <<>>)

\* the url switch comparing the whole current_url, query string and all
_click_page_unstripped(R, self, cu) ==
    IF url(self) = None
    THEN Outcome(R, "AttributeError", TRUE, cu, FALSE, 0, <<>>)
    ELSE IF url(self) # cu /\ Registry__contains__(R.store, cu)
    THEN _click_new_page(R, self, cu, cu)
    ELSE Outcome(R, "", TRUE, cu, FALSE, self, <<>>)

\* the url switch without the comparison with the caller's own url
_click_page_unchecked(R, self, cu) ==
    IF url(self) = None
    THEN Outcome(R, "AttributeError", TRUE, cu, FALSE, 0, <<>>)
    ELSE IF Registry__contains__(R.store, location(cu))
    THEN _click_new_page(R, self, cu, location(cu))
    ELSE Outcome(R, "", TRUE, cu, FALSE, self, <<>>)

\* _click, the url switch: the browser is at cu after the click
_click_page(R, self, cu) ==
    IF url(self) = None
    THEN Outcome(R, "AttributeError", TRUE, cu, FALSE, 0, <<>>)
    ELSE IF url(self) # location(cu) /\ Registry__contains__(R.store, location(cu))
    THEN _click_new_page(R, self, cu, location(cu))
    ELSE Outcome(R, "", TRUE, cu, FALSE, self, <<>>)

\* opens looked at only when the url switch yields no page
_click_opens_url_first(R, self, opens, cu) ==
    IF _click_page(R, self, cu).out # <<>>
    THEN _click_page(R, self, cu)
    ELSE IF opens.t = "str" /\ Truthy(opens.s)
    THEN LET r == Registry__call__(R, opens.s)
         IN  Outcome(r.R, "", TRUE, cu, FALSE, 0,
                     <<Component__init__(r.cls, self, "selector")>>)
    ELSE IF opens.t = "inst"
    THEN Outcome(R, "TypeError", TRUE, cu, FALSE, 0, <<>>)
    ELSE IF opens.t = "cls" /\ R.classes[opens.c].kind = "Component"
    THEN Outcome(R, "", TRUE, cu, FALSE, 0,
                 <<Component__init__(opens.c, self, "selector")>>)
    ELSE _click_page(R, self, cu)

\* _click after the element was clicked: opens, then the url switch
_click_opens(R, self, opens, cu) ==
    IF opens.t = "str" /\ Truthy(opens.s)
    THEN LET r == Registry__call__(R, opens.s)
         IN  Outcome(r.R, "", TRUE, cu, FALSE, 0,
                     <<Component__init__(r.cls, self, "selector")>>)
    ELSE IF opens.t = "inst"
    THEN Outcome(R, "TypeError", TRUE, cu, FALSE, 0, <<>>)
    ELSE IF opens.t = "cls" /\ R.classes[opens.c].kind = "Component"
    THEN Outcome(R, "", TRUE, cu, FALSE, 0,
                 <<Component__init__(opens.c, self, "selector")>>)
    ELSE _click_page(R, self, cu)

\* what looking up a missing element raises (_WebElementProxy.__get__)
Missing(find_by) ==
    CASE find_by = "button_text" -> "AssertionError"
      [] find_by = "index_position" -> "IndexError"
      [] OTHER -> "TimeoutException"

\* _SeleniumWrapper._click: component is the object clicked, element what the
\* DOM holds for it, target where the click takes the browser
_click(R, self, component, element, opens, target) ==
    IF element = "absent"
    THEN Outcome(R, Missing(component.find_by), FALSE, current_url, FALSE, 0, <<>>)
    ELSE IF element = "disabled"
    THEN Outcome(R, "TimeoutException", FALSE, current_url, FALSE, 0, <<>>)
    ELSE [_click_opens(R, self, opens, target) EXCEPT !.component = <<component>>]

\* a click that takes a Component class as selector and initialises it
click_takes_class(R, self, selector, opens, element, target) ==
    IF selector.t = "str"
    THEN LET r == Registry__call__(R, selector.s)
         IN  _click(r.R, self, Component__init__(r.cls, self, "selector"),
                    element, opens, target)
    ELSE IF selector.t = "cls"
    THEN _click(R, self, Component__init__(selector.c, self, "selector"),
                element, opens, target)
    ELSE IF selector.t = "inst"
    THEN _click(R, self, objs[selector.o], element, opens, target)
    ELSE IF selector.t = "none"
    THEN _click(R, self, objs[self], element, opens, target)
    ELSE Outcome(R, "ValueError", FALSE, current_url, FALSE, 0, <<>>)

\* _SeleniumWrapper.click: a class is no instance of Component, so the branch
\* of line 290 is never taken
click(R, self, selector, opens, element, target) ==
    IF selector.t = "str"
    THEN LET r == Registry__call__(R, selector.s)
         IN  _click(r.R, self, Component__init__(r.cls, self, "selector"),
                    element, opens, target)
    ELSE IF selector.t = "inst"
    THEN _click(R, self, objs[selector.o], element, opens, target)
    ELSE IF selector.t = "none"
    THEN _click(R, self, objs[self], element, opens, target)
    ELSE Outcome(R, "ValueError", FALSE, current_url, FALSE, 0, <<>>)

\* _SeleniumWrapper.click_link
click_link(R, self, opens, element, target) ==
    _click(R, self, Component__init__(ComponentCls, self, "link_text"),
           element, opens, target)

\* _SeleniumWrapper.click_button
click_button(R, self, opens, element, target) ==
    _click(R, self, Component__init__(ComponentCls, self, "button_text"),
           element, opens, target)

\* the objects the test can call a method of: those it holds, once it has
\* looked at the result of its last call
Callers == IF Idle THEN 1..Len(objs) ELSE {}

\* the initialised components the test holds
Components == {o \in 1..Len(objs) : objs[o].kind = "Component"}

OpensArgs == {NoArg} \cup ComponentArgs \cup {InstArg(o) : o \in Components}

\* what a test passes to click as selector: nothing, a css selector or an
\* initialised component
SelectorArgs ==
    {NoArg} \cup {StrArg(s) : s \in StrArgs \ {Empty}}
        \cup {InstArg(o) : o \in Components}

\* what a test passes to click as selector that is none of these: a selenium
\* WebElement, or the Modal class where click takes the instance
OtherSelectors ==
    {Arg("elem", Empty, 0, 0)}
        \cup {ClsArg(c) : c \in {d \in ComponentClasses : classes[d] = Modal}}

\* what the DOM can hold for the clicked element
ElementStates == {"clickable", "absent", "disabled"}

\* a call of op returned r; the click, if there was one, left the browser at `at`
Returned(op, self, selector, opens, element, at, r) ==
    /\ Len(r.R.classes) <= MaxClasses
    /\ classes' = r.R.classes
    /\ store' = r.R.store
    /\ current_url' = r.current_url
    /\ wdo_driver' = wdo_driver
    /\ objs' = objs
    /\ last' = [NoCall EXCEPT !.op = op, !.caller = self, !.sel = selector,
                              !.opens = opens, !.pre = current_url,
                              !.at = IF r.clicked THEN at ELSE current_url,
                              !.store = store, !.n0 = Len(classes),
                              !.element = element, !.clicked = r.clicked,
                              !.nav = r.nav, !.exc = r.exc, !.ref = r.ref,
                              !.out = r.out, !.component = r.component,
                              !.cls = IF r.out = <<>> THEN 0 ELSE r.out[1].cls]
    /\ UNCHANGED <<entry, flowVars, browserVars, mailVars>>

Click(self, selector, opens, element, target) ==
    /\ Idle
    /\ \E r \in {click(Reg, self, selector, opens, element, target)} :
           Returned("click", self, selector, opens, element, target, r)

ClickLink(self, text, opens, element, target) ==
    /\ Idle
    /\ \E r \in {click_link(Reg, self, opens, element, target)} :
           Returned("click_link", self, StrArg(text), opens, element, target, r)

ClickButton(self, text, opens, element, target) ==
    /\ Idle
    /\ \E r \in {click_button(Reg, self, opens, element, target)} :
           Returned("click_button", self, StrArg(text), opens, element, target, r)

\* the test binds one of the returned objects to a name
Keep(r) ==
    /\ ~Idle
    /\ r \in 1..Len(last.out)
    /\ Len(objs) < MaxObjs
    /\ objs' = Append(objs, last.out[r])
    /\ last' = NoCall
    /\ UNCHANGED <<classes, store, wdo_driver, current_url>>
    /\ UNCHANGED <<entry, flowVars, browserVars, mailVars>>

\* the test lets the result go
Drop ==
    /\ ~Idle
    /\ last' = NoCall
    /\ UNCHANGED <<classes, store, objs, wdo_driver, current_url>>
    /\ UNCHANGED <<entry, flowVars, browserVars, mailVars>>

\* the places the browser can be after a click: where it was, or a target
Targets(element) == IF element = "clickable" THEN NavTargets \cup {current_url}
                    ELSE {current_url}

\* ------------------------------------------------------------------ enter_text
\* a string is the sequence of its characters; a text is the sequence of the
\* items send_keys is given: the characters of a str, or the strings of a list
Texts == {<< <<"t">>, <<"e">> >>, << <<"a", "b">>, <<"c">> >>}

\* "".join([unicode(v) for v in text])
RECURSIVE join(_)
join(text) == IF text = <<>> THEN <<>> ELSE Head(text) \o join(Tail(text))

\* range(5), line 353
Attempts == 5

\* what the element answers when its value is read: it has gone stale, or
\* it has a value attribute (empty for none) and a text
Stale == [stale |-> TRUE, value |-> <<>>, text |-> <<>>]
Reading(value, text) == [stale |-> FALSE, value |-> value, text |-> text]

\* the values a send_keys can leave in place: all of the text, the text
\* less its last character, nothing
Readings(text) ==
    {Stale} \cup
    {Reading(v, t) : v \in {join(text), SubSeq(join(text), 1, Len(join(text)) - 1), <<>>},
                     t \in {join(text), <<>>}}

\* a call made of the element: its arguments, what it returned, whether it raised
Called(call, args, result, raised) ==
    [call |-> call, args |-> args, result |-> result, raised |-> raised]

\* no enter_text is running; i is the loop variable of line 353
NoEntry ==
    [pc |-> "idle", selector |-> <<>>, text |-> <<>>, i |-> 0, log |-> <<>>,
     returned |-> FALSE, exc |-> ""]

\* enter_text returns, or raises exc
EntryEnds(e, exc) == [e EXCEPT !.pc = "done", !.returned = (exc = ""), !.exc = exc]

\* element.get_attribute("value") or element.text
value_in_place(r) == IF r.value # <<>> THEN r.value ELSE r.text

\* a loop that never compares the value with the text
enter_text_loop_unchecked(e, r, clears) ==
    IF e.i >= Attempts THEN EntryEnds(e, "AssertionError")
    ELSE LET sent == [e EXCEPT !.log = Append(@, Called("send_keys", e.text, <<>>, FALSE))]
         IN  IF r.stale
             THEN EntryEnds([sent EXCEPT !.log = Append(@, Called("get_attribute", <<>>, <<>>, TRUE))], "")
             ELSE LET read == [sent EXCEPT !.log = Append(@,
                                   Called("get_attribute", <<>>, value_in_place(r), FALSE))]
                  IN  IF ~clears
                      THEN EntryEnds([read EXCEPT !.log = Append(@, Called("clear", <<>>, <<>>, TRUE))], "")
                      ELSE [read EXCEPT !.log = Append(@, Called("clear", <<>>, <<>>, FALSE)),
                                        !.i = @ + 1]

\* one turn of the for loop of enter_text (lines 353-368) and the raise after
\* it: the element answers r to the read, and clears says whether
\* element.clear() works
enter_text_loop(e, r, clears) ==
    IF e.i >= Attempts THEN EntryEnds(e, "AssertionError")
    ELSE LET sent == [e EXCEPT !.log = Append(@, Called("send_keys", e.text, <<>>, FALSE))]
         IN  IF r.stale
             THEN EntryEnds([sent EXCEPT !.log = Append(@, Called("get_attribute", <<>>, <<>>, TRUE))], "")
             ELSE LET read == [sent EXCEPT !.log = Append(@,
                                   Called("get_attribute", <<>>, value_in_place(r), FALSE))]
                  IN  IF value_in_place(r) = join(e.text) THEN EntryEnds(read, "")
                      ELSE IF ~clears
                      THEN EntryEnds([read EXCEPT !.log = Append(@, Called("clear", <<>>, <<>>, TRUE))], "")
                      ELSE [read EXCEPT !.log = Append(@, Called("clear", <<>>, <<>>, FALSE)),
                                        !.i = @ + 1]

\* enter_text up to its loop: get_visible_element finds the element or
\* times out
enter_text(selector, text, visible) ==
    LET e == [NoEntry EXCEPT !.selector = selector, !.text = text]
    IN  IF visible THEN [e EXCEPT !.pc = "for"] ELSE EntryEnds(e, "TimeoutException")

\* the test calls enter_text(selector, text) of a page or component
EnterText(selector, text, visible) ==
    /\ entry.pc = "idle"
    /\ entry' = enter_text(selector, text, visible)
    /\ UNCHANGED <<classes, store, objs, wdo_driver, current_url, last>>
    /\ UNCHANGED <<flowVars, browserVars, mailVars>>

EnterTextLoop(r, clears) ==
    /\ entry.pc = "for"
    /\ entry' = enter_text_loop(entry, r, clears)
    /\ UNCHANGED <<classes, store, objs, wdo_driver, current_url, last>>
    /\ UNCHANGED <<flowVars, browserVars, mailVars>>

\* enter_text has returned or raised
EnterTextDone ==
    /\ entry.pc = "done"
    /\ entry' = NoEntry
    /\ UNCHANGED <<classes, store, objs, wdo_driver, current_url, last>>
    /\ UNCHANGED <<flowVars, browserVars, mailVars>>

\* ------------------------------------------------------------------ flow.py
MaxAttempts == 3    \* the largest attempts a test hands to retry

\* the errors a test hands to ignore and retry (test_flow.py)
errors == {"TypeError", "KeyError"}

\* what one call of the wrapped function does: it returns or raises
FuncOutcomes == {"return", "TypeError", "KeyError", "RuntimeError"}

\* the positional arguments the caller passes to the wrapper
ArgLists == {<<>>, <<"1", "2", "3">>}

\* test_func: it hands back the arguments it was called with
test_func(args) == <<"args">> \o args

\* no wrapper is running; calls is the list of the calls made of func
NoWrapper ==
    [kind |-> "", attempts |-> 0, args |-> Empty, retries |-> 0, pc |-> "idle",
     calls |-> <<>>, returned |-> FALSE, value |-> Empty, exc |-> ""]

\* the wrapper ends: it returns value, or raises exc
Finish(w, returned, value, exc) ==
    [w EXCEPT !.pc = "done", !.returned = returned, !.value = value, !.exc = exc]

\* func(*args, **kwargs)
CallFunc(w, o) == [w EXCEPT !.calls = Append(@, [args |-> w.args, outcome |-> o])]

\* a wrapper that swallows every exception of func
ignore_all(args, o) ==
    LET w == CallFunc([NoWrapper EXCEPT !.kind = "ignore", !.args = args], o)
    IN  IF o = "return" THEN Finish(w, TRUE, test_func(args), "")
        ELSE Finish(w, TRUE, None, "")

\* ignore(func, errors).wrapper: func does o
ignore(args, o) ==
    LET w == CallFunc([NoWrapper EXCEPT !.kind = "ignore", !.args = args], o)
    IN  IF o = "return" THEN Finish(w, TRUE, test_func(args), "")
        ELSE IF o \in errors THEN Finish(w, TRUE, None, "")
        ELSE Finish(w, FALSE, Empty, o)

\* a wrapper that starts with one retry too many
retry_one_more(attempts, args) ==
    [NoWrapper EXCEPT !.kind = "retry", !.attempts = attempts, !.args = args,
                      !.retries = attempts + 1, !.pc = "while"]

\* retry(func, errors, attempts).wrapper, line 27: retries = attempts
retry(attempts, args) ==
    [NoWrapper EXCEPT !.kind = "retry", !.attempts = attempts, !.args = args,
                      !.retries = attempts, !.pc = "while"]

\* the bare raise of line 33, outside every except clause: Python 2 raises
\* the exception last handled in the frame again (TypeError when there was
\* none), Python 3 raises RuntimeError
BareRaise(w) ==
    IF w.calls = <<>> THEN {"TypeError", "RuntimeError"}
    ELSE {w.calls[Len(w.calls)].outcome, "RuntimeError"}

\* a loop that gives up at the first exception
retry_loop_no_retry(w, o, e) ==
    IF w.retries = 0 THEN Finish(w, FALSE, Empty, e)
    ELSE IF o = "return" THEN Finish(CallFunc(w, o), TRUE, test_func(w.args), "")
    ELSE Finish(CallFunc(w, o), FALSE, Empty, o)

\* one turn of the while loop of retry (lines 28-33): func does o, and the
\* raise after the loop raises e
retry_loop(w, o, e) ==
    IF w.retries = 0 THEN Finish(w, FALSE, Empty, e)
    ELSE IF o = "return" THEN Finish(CallFunc(w, o), TRUE, test_func(w.args), "")
    ELSE IF o \in errors THEN [CallFunc(w, o) EXCEPT !.retries = @ - 1]
    ELSE Finish(CallFunc(w, o), FALSE, Empty, o)

FlowInit == wrapper = NoWrapper

\* the test calls retry(test_func, errors, attempts)(*args)
Retry(attempts, args) ==
    /\ wrapper.pc = "idle"
    /\ wrapper' = retry(attempts, args)
    /\ UNCHANGED <<pageVars, browserVars, mailVars>>

\* the wrapper of retry goes through its loop once
RetryLoop(o) ==
    /\ wrapper.kind = "retry"
    /\ wrapper.pc = "while"
    /\ \E e \in BareRaise(wrapper) : wrapper' = retry_loop(wrapper, o, e)
    /\ UNCHANGED <<pageVars, browserVars, mailVars>>

\* the test calls ignore(test_func, errors)(*args)
Ignore(args, o) ==
    /\ wrapper.pc = "idle"
    /\ wrapper' = ignore(args, o)
    /\ UNCHANGED <<pageVars, browserVars, mailVars>>

\* the caller has the result of the wrapper, or its exception
WrapperDone ==
    /\ wrapper.pc = "done"
    /\ wrapper' = NoWrapper
    /\ UNCHANGED <<pageVars, browserVars, mailVars>>

\* ------------------------------------------------------------------ browser.py
MaxBrowsers == 2    \* browsers one test case starts
MaxBody == 3        \* the largest height of a page body
MaxWindow == 2      \* the largest height of a browser window

FRAME_SIZE == <<1300, 1080>>

\* the attributes of selenium.webdriver that are drivers
webdriver == {"Firefox", "Chrome"}

\* the names a test passes as driver: the default, and a name that is no
\* attribute of selenium.webdriver
DriverNames == {"Firefox", "Netscape"}

\* the test case of test_browser_test_case.py: its SNAPSHOT_PATH and its id()
SNAPSHOT_PATH == "/my-path"
test_id == "test-id"

\* a webdriver instance; id tells the instances apart, in order of creation
Browser(id, name, size) == [id |-> id, name |-> name, size |-> size]
NoBrowser == Browser(0, "", <<>>)

\* BrowserTestCase.__init__ (NoBrowser and None stand for Python's None)
\* displays counts the virtual displays started for the test case
BrowserTestCase__init__ ==
    [cls |-> "BrowserTestCase", browsers |-> <<>>, _driver |-> NoBrowser,
     _display |-> None, cleanups |-> <<>>, displays |-> 0]

\* HeadlessBrowserTestCase defines no __init__ of its own
HeadlessBrowserTestCase__init__ ==
    [BrowserTestCase__init__ EXCEPT !.cls = "HeadlessBrowserTestCase"]

\* an attribute that was never assigned, and a started pyvirtualdisplay Display
Unset == <<"unset">>
Display == <<"Display">>

\* hasattr(self, name)
hasattr(self, name) == self[name] # Unset

\* what the wrapped test method does: it returns, or raises an exception
\* built from args
Returns == [raised |-> FALSE, type |-> "", args |-> <<>>]
Raises(type, args) == [raised |-> TRUE, type |-> type, args |-> args]
MethodOutcomes ==
    {Returns, Raises("TypeError", <<>>), Raises("TypeError", <<"a type error">>)}

\* what a browser answers when asked for the heights of its body and its
\* window; Unreadable: find_element_by_tag_name, size or get_window_size raise
Unreadable == [body |-> -1, window |-> -1]
Heights ==
    {Unreadable} \cup {[body |-> b, window |-> w] : b \in 0..MaxBody, w \in 1..MaxWindow}

\* the calls the wrapper makes of a browser
Event(call, browser, offset, file) ==
    [call |-> call, browser |-> browser, offset |-> offset, file |-> file]
File(path, id, idx, i) == [dir |-> path, test |-> id, browser |-> idx, page |-> i]
NoFile == File("", "", -1, -1)

NoRun ==
    [op |-> "", exc |-> "", out |-> NoBrowser, method |-> Returns,
     heights |-> <<>>, log |-> <<>>, driver |-> "", answer |-> FALSE]

\* a page count that drops the last, partly filled window
pages_floor(body_height, window_height) == body_height \div window_height

\* line 59: int(math.ceil(float(body_height) / window_height))
pages(body_height, window_height) ==
    (body_height + window_height - 1) \div window_height

\* lines 63-73: for i in range(pages)
RECURSIVE snapshot_pages(_, _, _, _)
snapshot_pages(idx, i, n, window_height) ==
    IF i >= n THEN <<>>
    ELSE <<Event("execute_script", idx, i * window_height, NoFile),
           Event("get_screenshot_as_file", idx, -1,
                 File(SNAPSHOT_PATH, test_id, idx, i))>>
             \o snapshot_pages(idx, i + 1, n, window_height)

\* lines 54-73: for idx, browser in enumerate(self.browsers); h[idx + 1] is
\* what the browser of index idx answers
RECURSIVE snapshot_browsers(_, _, _)
snapshot_browsers(self, h, idx) ==
    IF idx >= Len(self.browsers) THEN <<>>
    ELSE LET n == IF h[idx + 1] = Unreadable THEN 0
                  ELSE pages(h[idx + 1].body, h[idx + 1].window)
         IN  snapshot_pages(idx, 0, n, h[idx + 1].window)
                 \o snapshot_browsers(self, h, idx + 1)

\* line 77: reraise(test_exc_type, test_exc.args[0], tb=test_traceback).
\* args[0] of an exception built with no arguments is an IndexError; six hands
\* a value that is no exception to the raise statement on Python 2 and asks
\* it for its __traceback__ on Python 3
reraise(m) ==
    IF m.args = <<>> THEN {"IndexError"} ELSE {m.type, "AttributeError"}

\* snapshot_on_error.wrapper: the method does m, the browsers answer h
snapshot_on_error(self, m, h, e) ==
    IF m.raised
    THEN [NoRun EXCEPT !.op = "snapshot_on_error", !.method = m, !.heights = h,
                       !.log = snapshot_browsers(self, h, 0), !.exc = e]
    ELSE [NoRun EXCEPT !.op = "snapshot_on_error", !.method = m, !.heights = h]

\* a property that answers with the first browser started
browser_first(self) ==
    IF self.browsers = <<>>
    THEN [NoRun EXCEPT !.op = "browser", !.exc = "AttributeError"]
    ELSE [NoRun EXCEPT !.op = "browser", !.out = self.browsers[1]]

\* BrowserTestCase.browser
browser(self) ==
    IF self.browsers = <<>>
    THEN [NoRun EXCEPT !.op = "browser", !.exc = "AttributeError"]
    ELSE [NoRun EXCEPT !.op = "browser", !.out = self.browsers[Len(self.browsers)]]

\* BrowserTestCase.start_browser: the test case and what the call hands back
start_browser(self, size, driver) ==
    IF driver \notin webdriver
    THEN [self |-> self,
          run |-> [NoRun EXCEPT !.op = "start_browser", !.driver = driver,
                                !.exc = "ValueError"]]
    ELSE LET d == Browser(Len(self.browsers) + 1, driver, size)
         IN  [self |-> [self EXCEPT !._driver = d,
                                    !.browsers = Append(@, d),
                                    !.cleanups = Append(@, <<"close", d.id>>)],
              run |-> [NoRun EXCEPT !.op = "start_browser", !.driver = driver,
                                    !.out = d]]

\* BrowserTestCase.is_headless
is_headless(self) ==
    [NoRun EXCEPT !.op = "is_headless", !.answer = hasattr(self, "_display")]

\* HeadlessBrowserTestCase.start_browser: a display is started when the test
\* case has no attribute _display; self._display.stop of line 149 is an
\* AttributeError when _display is None
HeadlessBrowserTestCase_start_browser(self, size, driver) ==
    LET s1 == IF ~hasattr(self, "_display")
              THEN [self EXCEPT !._display = Display, !.displays = @ + 1]
              ELSE self
    IN  IF s1._display # Display
        THEN [self |-> s1,
              run |-> [NoRun EXCEPT !.op = "start_browser", !.driver = driver,
                                    !.exc = "AttributeError"]]
        ELSE start_browser([s1 EXCEPT !.cleanups = Append(@, <<"stop", 0>>)],
                           size, driver)

BrowserInit ==
    /\ testcase = BrowserTestCase__init__
    /\ run = NoRun

\* the test runner constructs the next test case: a BrowserTestCase or a
\* HeadlessBrowserTestCase
NewTestCase(self) ==
    /\ run.op = ""
    /\ testcase # self
    /\ testcase' = self
    /\ UNCHANGED <<run, pageVars, flowVars, mailVars>>

StartBrowser(driver) ==
    /\ run.op = ""
    /\ Len(testcase.browsers) < MaxBrowsers
    /\ \E r \in {IF testcase.cls = "HeadlessBrowserTestCase"
                   THEN HeadlessBrowserTestCase_start_browser(testcase, FRAME_SIZE, driver)
                   ELSE start_browser(testcase, FRAME_SIZE, driver)} :
           /\ testcase' = r.self
           /\ run' = r.run
    /\ UNCHANGED <<pageVars, flowVars, mailVars>>

\* the test asks self.is_headless()
IsHeadless ==
    /\ run.op = ""
    /\ run' = is_headless(testcase)
    /\ UNCHANGED <<testcase, pageVars, flowVars, mailVars>>

\* the test reads self.browser
GetBrowser ==
    /\ run.op = ""
    /\ run' = browser(testcase)
    /\ UNCHANGED <<testcase, pageVars, flowVars, mailVars>>

\* a test method decorated with snapshot_on_error runs
RunTest(m, h) ==
    /\ run.op = ""
    /\ \E e \in reraise(m) : run' = snapshot_on_error(testcase, m, h, e)
    /\ UNCHANGED <<testcase, pageVars, flowVars, mailVars>>

\* the test has looked at what its last call did
RunSeen ==
    /\ run.op # ""
    /\ run' = NoRun
    /\ UNCHANGED <<testcase, pageVars, flowVars, mailVars>>

\* ------------------------------------------------------------------ email_client.py
MaxMsgs == 2        \* message ids the server knows: 1..MaxMsgs
MaxSearches == 2    \* gmail_search calls made of one client

IMAP_SERVER == "imap.gmail.com"

\* the email addresses and passwords a test constructs a client with
Credentials == {<<"email", "password">>, <<"testing+566b@domain.com", "xxxxx">>}

\* what the server answers to a search: a list of message ids, ascending
MsgLists ==
    {s \in UNION {[1..n -> 1..MaxMsgs] : n \in 0..MaxMsgs} :
        \A i \in 1..(Len(s) - 1) : s[i] < s[i + 1]}

\* IMAPClient(host, use_uid=True, ssl=True): not logged in, no folder selected
IMAPClient(host, use_uid, ssl) ==
    [host |-> host, use_uid |-> use_uid, ssl |-> ssl,
     login |-> <<>>, folder |-> "", logged_out |-> FALSE]

\* a call made of a connection (conn: its index), or its creation
Ev(call, conn, creds, messages, lists) ==
    [call |-> call, conn |-> conn, creds |-> creds, messages |-> messages,
     lists |-> lists]

\* no client constructed yet
NoGmail ==
    [client |-> 0, email_address |-> "", password |-> "",
     messages_for_this_session |-> <<>>]

\* imap.returned: the ids that search and gmail_search have handed to the
\* test since the client was constructed
NoImap == [op |-> "", log |-> <<>>, out |-> <<>>, returned |-> {}]

\* the state the methods of the client work on
Mail(g, cs, log) == [gmail |-> g, connections |-> cs, log |-> log]

\* self.client = IMAPClient(self.IMAP_SERVER, use_uid=True, ssl=True)
new_client(M) ==
    Mail([M.gmail EXCEPT !.client = Len(M.connections) + 1],
         Append(M.connections, IMAPClient(IMAP_SERVER, TRUE, TRUE)),
         Append(M.log, Ev("IMAPClient", Len(M.connections) + 1, <<>>, <<>>, <<>>)))

\* a login that hands the server the password alone
_login_no_address(M) ==
    LET c == M.gmail.client
        creds == <<"", M.gmail.password>>
    IN  Mail(M.gmail,
             [M.connections EXCEPT ![c].login = creds, ![c].folder = "INBOX"],
             M.log \o <<Ev("login", c, creds, <<>>, <<>>),
                        Ev("select_folder", c, <<"INBOX">>, <<>>, <<>>)>>)

\* GmailImapClient._login
_login(M) ==
    LET c == M.gmail.client
        creds == <<M.gmail.email_address, M.gmail.password>>
    IN  Mail(M.gmail,
             [M.connections EXCEPT ![c].login = creds, ![c].folder = "INBOX"],
             M.log \o <<Ev("login", c, creds, <<>>, <<>>),
                        Ev("select_folder", c, <<"INBOX">>, <<>>, <<>>)>>)

\* self.client.logout()
logout(M) ==
    LET c == M.gmail.client
    IN  Mail(M.gmail, [M.connections EXCEPT ![c].logged_out = TRUE],
             Append(M.log, Ev("logout", c, <<>>, <<>>, <<>>)))

\* GmailImapClient.__init__
GmailImapClient__init__(email_address, password) ==
    LET M == new_client(Mail(NoGmail, <<>>, <<>>))
    IN  _login(Mail([M.gmail EXCEPT !.email_address = email_address,
                                    !.password = password,
                                    !.messages_for_this_session = <<>>],
                    M.connections, M.log))

\* email.message_from_string(data["RFC822"]) of the message id
message_from_string(id) == [RFC822 |-> id]

\* GmailImapClient.emails_from_messages: the server answers the fetch with
\* one item per message asked for
emails_from_messages(M, messages) ==
    [M |-> Mail(M.gmail, M.connections,
                Append(M.log, Ev("fetch", M.gmail.client, <<"RFC822">>, messages, <<>>))),
     out |-> [i \in 1..Len(messages) |-> message_from_string(messages[i])]]

\* GmailImapClient.search: the server answers the search with messages
search(M, messages) ==
    emails_from_messages(
        Mail(M.gmail, M.connections,
             Append(M.log, Ev("search", M.gmail.client, <<>>, <<>>, <<>>))),
        messages)

\* a gmail_search that keeps the connection it queried with
gmail_search_one_connection(M, query, messages) ==
    LET M1 == _login(new_client(logout(M)))
        M2 == Mail([M1.gmail EXCEPT !.messages_for_this_session = Append(@, messages)],
                   M1.connections,
                   Append(M1.log, Ev("gmail_search", M1.gmail.client, <<query>>, <<>>, <<>>)))
    IN  emails_from_messages(M2, messages)

\* GmailImapClient.gmail_search: the server answers the query with messages
gmail_search(M, query, messages) ==
    LET M1 == _login(new_client(logout(M)))
        M2 == Mail([M1.gmail EXCEPT !.messages_for_this_session = Append(@, messages)],
                   M1.connections,
                   Append(M1.log, Ev("gmail_search", M1.gmail.client, <<query>>, <<>>, <<>>)))
        M3 == _login(new_client(logout(M2)))
    IN  emails_from_messages(M3, messages)

\* GmailImapClient.delete_seen_messages
delete_seen_messages(M) ==
    Mail(M.gmail, M.connections,
         M.log \o <<Ev("delete_messages", M.gmail.client, <<>>, <<>>,
                       M.gmail.messages_for_this_session),
                    Ev("expunge", M.gmail.client, <<>>, <<>>, <<>>)>>)

\* the ids of a list of messages
Ids(messages) == {messages[i] : i \in 1..Len(messages)}

MailInit ==
    /\ gmail = NoGmail
    /\ connections = <<>>
    /\ imap = NoImap

\* the client and its connections as the methods see them, log empty
NowMail == Mail(gmail, connections, <<>>)

\* the test constructs the client: GmailImapClient(email_address, password)
NewClient(creds) ==
    /\ gmail.client = 0
    /\ \E M \in {GmailImapClient__init__(creds[1], creds[2])} :
           /\ gmail' = M.gmail
           /\ connections' = M.connections
           /\ imap' = [NoImap EXCEPT !.op = "__init__", !.log = M.log]
    /\ UNCHANGED <<pageVars, flowVars, browserVars>>

Search(messages) ==
    /\ gmail.client # 0
    /\ imap.op = ""
    /\ \E r \in {search(NowMail, messages)} :
           /\ gmail' = r.M.gmail
           /\ connections' = r.M.connections
           /\ imap' = [imap EXCEPT !.op = "search", !.log = r.M.log, !.out = r.out,
                                   !.returned = @ \cup Ids(messages)]
    /\ UNCHANGED <<pageVars, flowVars, browserVars>>

GmailSearch(query, messages) ==
    /\ gmail.client # 0
    /\ imap.op = ""
    /\ Len(gmail.messages_for_this_session) < MaxSearches
    /\ \E r \in {gmail_search(NowMail, query, messages)} :
           /\ gmail' = r.M.gmail
           /\ connections' = r.M.connections
           /\ imap' = [imap EXCEPT !.op = "gmail_search", !.log = r.M.log,
                                   !.out = r.out, !.returned = @ \cup Ids(messages)]
    /\ UNCHANGED <<pageVars, flowVars, browserVars>>

DeleteSeenMessages ==
    /\ gmail.client # 0
    /\ imap.op = ""
    /\ \E M \in {delete_seen_messages(NowMail)} :
           /\ gmail' = M.gmail
           /\ connections' = M.connections
           /\ imap' = [imap EXCEPT !.op = "delete_seen_messages", !.log = M.log,
                                   !.out = <<>>]
    /\ UNCHANGED <<pageVars, flowVars, browserVars>>

\* the test has looked at what its last call returned and did
MailSeen ==
    /\ imap.op # ""
    /\ imap' = [imap EXCEPT !.op = "", !.log = <<>>, !.out = <<>>]
    /\ UNCHANGED <<gmail, connections, pageVars, flowVars, browserVars>>

\* ------------------------------------------------------------------ specifications
TextInit == entry = NoEntry

Init == PageInit /\ TextInit /\ FlowInit /\ BrowserInit /\ MailInit

\* a test that looks components up
NextGet ==
    \/ \E c \in ClassDefs : DefineClass(c)
    \/ \E c \in 1..Len(classes) : NewPage(c)
    \/ \E self \in Callers, a \in ComponentArgs :
           \E n \in ElementCounts(SelectorOf(a)) : GetComponent(self, a, n)
    \/ \E self \in Callers, a \in ComponentArgs :
           \E n \in ElementCounts(SelectorOf(a)) : GetComponents(self, a, n)
    \/ \E r \in 1..MaxElems : Keep(r)
    \/ Drop

\* test modules that define classes, look selectors up and delete keys
NextRegistry ==
    \/ \E c \in RegistryDefs : DefineClass(c)
    \/ \E c \in 1..Len(classes) : NewPage(c)
    \/ \E self \in Callers, a \in ComponentArgs :
           \E n \in ElementCounts(SelectorOf(a)) : GetComponent(self, a, n)
    \/ \E key \in (DOMAIN store) \cup {BtnSel} : DeleteKey(key)
    \/ \E r \in 1..MaxElems : Keep(r)
    \/ Drop

SpecRegistry == Init /\ [][NextRegistry]_vars

\* a test that clicks its way through the site
NextClick ==
    \/ \E c \in ClassDefs : DefineClass(c)
    \/ \E c \in 1..Len(classes) : NewPage(c)
    \/ \E self \in Callers, selector \in SelectorArgs, opens \in OpensArgs :
           \E element \in ElementStates : \E target \in Targets(element) :
               Click(self, selector, opens, element, target)
    \/ \E self \in Callers, selector \in OtherSelectors :
           \E element \in ElementStates : \E target \in Targets(element) :
               Click(self, selector, NoArg, element, target)
    \/ \E self \in Callers, text \in LinkTexts, opens \in OpensArgs :
           \E element \in ElementStates : \E target \in Targets(element) :
               ClickLink(self, text, opens, element, target)
    \/ \E self \in Callers, text \in LinkTexts, opens \in OpensArgs :
           \E element \in ElementStates : \E target \in Targets(element) :
               ClickButton(self, text, opens, element, target)
    \/ \E r \in 1..MaxElems : Keep(r)
    \/ Drop

SpecGet == Init /\ [][NextGet]_vars

SpecClick == Init /\ [][NextClick]_vars

\* a test that types into elements
NextText ==
    \/ \E selector \in StrArgs \ {Empty}, text \in Texts, visible \in BOOLEAN :
           EnterText(selector, text, visible)
    \/ \E r \in Readings(entry.text), clears \in BOOLEAN : EnterTextLoop(r, clears)
    \/ EnterTextDone

SpecText == Init /\ [][NextText]_vars

\* a test that calls wrapped functions
NextFlow ==
    \/ \E attempts \in 0..MaxAttempts, args \in ArgLists : Retry(attempts, args)
    \/ \E o \in FuncOutcomes : RetryLoop(o)
    \/ \E args \in ArgLists, o \in FuncOutcomes : Ignore(args, o)
    \/ WrapperDone

SpecFlow == Init /\ [][NextFlow]_vars

\* the wrapper, once called, runs on until it returns or raises
SpecFlowFair == SpecFlow /\ WF_vars(NextFlow)

\* a browser test case: browsers are started, looked at and photographed
NextBrowser ==
    \/ \E self \in {BrowserTestCase__init__, HeadlessBrowserTestCase__init__} :
           NewTestCase(self)
    \/ \E driver \in DriverNames : StartBrowser(driver)
    \/ GetBrowser
    \/ IsHeadless
    \/ \E m \in MethodOutcomes :
           \E h \in [1..Len(testcase.browsers) -> Heights] : RunTest(m, h)
    \/ RunSeen

SpecBrowser == Init /\ [][NextBrowser]_vars

\* a test that reads and deletes mail
NextMail ==
    \/ \E creds \in Credentials : NewClient(creds)
    \/ \E messages \in MsgLists : Search(messages)
    \/ \E messages \in MsgLists : GmailSearch("query", messages)
    \/ DeleteSeenMessages
    \/ MailSeen

SpecMail == Init /\ [][NextMail]_vars

\* ------------------------------------------------------------------ claims
ClickOps == {"click", "click_link", "click_button"}

\* the last call was a click and the element was clicked
Clicked == last.op \in ClickOps /\ last.clicked

\* the click was called without opens (opens left out, None or '')
NoOpens == last.opens.t = "none" \/ (last.opens.t = "str" /\ last.opens.s = Empty)

\* opens was a css selector or a Component class
GivenOpens == (last.opens.t = "str" /\ Truthy(last.opens.s)) \/ last.opens.t = "cls"

\* the url of the page of the object the last call was made on
CallerUrl == url(last.caller)

\* the browser location, query string removed, right after the click
At == location(last.at)

\* k was the url of a registered Page class when the call was made
RegisteredPage(k) == k \in DOMAIN last.store /\ classes[last.store[k]].kind = "Page"

HasQuery(u) == FirstIdx(u, "?") # 0

\* the query string of u
QueryString(u) == u[FirstIdx(u, "?") + 1]

\* urlparse.parse_qs on the query strings the browser can be at
parse_qs(q) ==
    CASE q = "search=hello" -> {<<"search", <<"hello">>>>}
      [] q = "hello=world&testers=are_people" ->
             {<<"hello", <<"world">>>>, <<"testers", <<"are_people">>>>}
      [] OTHER -> {}

\* re.match of a page url taken as a pattern against a location
Matches(pattern, loc) == pattern = PatternUrl /\ loc = ArticleUrl

\* C1: a click without opens that leaves the browser at a location (query
\* string removed) which differs from the caller's page url and is the url of
\* a registered Page class returns a new instance of that class.
C1_ClickSwitchesPage ==
    (Clicked /\ NoOpens /\ At # CallerUrl /\ RegisteredPage(At)) =>
        /\ last.exc = ""
        /\ last.ref = 0
        /\ Len(last.out) = 1
        /\ last.out[1].kind = "Page"
        /\ last.out[1].cls = last.store[At]
        /\ classes[last.out[1].cls].url = At

\* C1 witness: a click on a HomePage took the browser to CoolPage's url with
\* a query string and a CoolPage came back
C1_Witness ==
    /\ Clicked /\ NoOpens
    /\ last.at = CoolQueryUrl
    /\ classes[objs[last.caller].cls].name = "HomePage"
    /\ Len(last.out) = 1
    /\ classes[last.out[1].cls].name = "CoolPage"

\* C2: a click given opens as a selector string or a Component class returns
\* an instance of the class registered for the selector (or of the class
\* passed) whose parent is the caller, wherever the click took the browser.
C2_OpensTakesPrecedence ==
    (Clicked /\ GivenOpens) =>
        /\ last.exc = ""
        /\ last.ref = 0
        /\ Len(last.out) = 1
        /\ last.out[1].kind = "Component"
        /\ last.out[1].parent = last.caller
        /\ last.opens.t = "cls" => last.out[1].cls = last.opens.c
        /\ last.opens.t = "str" =>
               /\ last.opens.s \in DOMAIN store
               /\ store[last.opens.s] = last.out[1].cls
               /\ last.opens.s \in DOMAIN last.store =>
                      last.out[1].cls = last.store[last.opens.s]

\* C2 witness: the click moved the browser to the url of a registered Page
\* class other than the caller's, and the component of opens still came back
C2_Witness ==
    /\ Clicked /\ GivenOpens
    /\ At # CallerUrl /\ RegisteredPage(At)
    /\ Len(last.out) = 1
    /\ last.out[1].kind = "Component"
\* C3: when a click switches to a registered Page class and the new browser
\* url carries a query string, the returned page has been set up with the
\* parsed query parameters ({'search': ['hello']} for '?search=hello').
C3_QueryPassedToSetup ==
    (Clicked /\ NoOpens /\ At # CallerUrl /\ RegisteredPage(At) /\ HasQuery(last.at)) =>
        /\ Len(last.out) = 1
        /\ last.out[1].kind = "Page"
        /\ last.out[1].setup.called
        /\ <<"_query", parse_qs(QueryString(last.at))>> \in last.out[1].setup.kwargs

\* C4: a Page class whose url is a pattern is selected by a click when the new
\* location matches the pattern; the page returned is of that class and was
\* given the unnamed groups as positional arguments, the named groups, the
\* parsed query string (_query) and the fragment (_fragment) as keywords.
C4_PatternPageSelected ==
    (Clicked /\ NoOpens
        /\ \E k \in DOMAIN last.store :
               classes[last.store[k]].kind = "Page" /\ Matches(k, At)) =>
        /\ Len(last.out) = 1
        /\ last.out[1].kind = "Page"
        /\ Matches(classes[last.out[1].cls].url, At)
        /\ last.out[1].setup.called
        /\ last.out[1].setup.args = <<"9999">>
        /\ last.out[1].setup.kwargs =
               {<<"slug", "thisisthearticle">>,
                <<"_query", parse_qs(QueryString(last.at))>>,
                <<"_fragment", "fragment">>}

\* C5 as stated: without opens, whenever the browser url is the same before
\* and after the click, click returns the very object it was called on (a
\* new Page object only if the click changed the browser url).
C5_SameUrlReturnsSelf ==
    (Clicked /\ NoOpens /\ last.exc = "" /\ last.pre = last.at) =>
        (last.ref = last.caller /\ last.out = <<>>)

\* C5 amended: without opens, whenever the browser location (query string
\* removed) after the click equals the url of the caller's page, click returns
\* the very object it was called on; it returns a new Page object only if
\* that location differs from the url of the caller's page.
C5_OwnUrlReturnsSelf ==
    (Clicked /\ NoOpens /\ last.exc = "") =>
        /\ At = CallerUrl => (last.ref = last.caller /\ last.out = <<>>)
        /\ last.out # <<>> => (last.out[1].kind = "Page" /\ At # CallerUrl)

\* C5 witness: the click changed the browser url (a query string was added)
\* and the location is still the caller's page url: the caller came back
C5_Witness ==
    /\ Clicked /\ NoOpens /\ last.exc = ""
    /\ last.pre # last.at
    /\ At = CallerUrl
    /\ last.ref = last.caller

\* C6: when opens is an initialised Component instance, a click clicks the
\* target and returns that same instance.
C6_OpensInstanceReturned ==
    (last.op \in ClickOps /\ last.opens.t = "inst" /\ last.element = "clickable"
        /\ last.sel.t # "elem") =>
        (last.clicked /\ last.exc = "" /\ last.ref = last.opens.o)

\* C7: get_component raises ComponentMissing when the selector is not present
\* in the page and returns a component only when it is present.
C7_ComponentMissingRaised ==
    last.op = "get_component" =>
        /\ last.elements = 0 => last.exc = "ComponentMissing"
        /\ last.out # <<>> => last.elements > 0

\* c is the class the argument of the last get_component(s) call resolves to:
\* the class passed, the class registered for the selector or, for a selector
\* that was no registry key, a new DynamicComponent with that selector
ResolvedClass(c) ==
    /\ last.sel.t = "cls" => c = last.sel.c
    /\ (last.sel.t = "str" /\ last.sel.s \in DOMAIN last.store) =>
           c = last.store[last.sel.s]
    /\ (last.sel.t = "str" /\ last.sel.s \notin DOMAIN last.store) =>
           /\ c > last.n0
           /\ classes[c].kind = "Component"
           /\ classes[c].name = "DynamicComponent"
           /\ classes[c].selector = last.sel.s

\* C8: get_component returns an instance, with the caller as parent, of the
\* class its argument resolves to: a Component subclass as given, the class
\* registered for a selector, a new Component subclass with that selector for
\* a selector that is not registered.
C8_GetComponentResolves ==
    last.op = "get_component" =>
        /\ last.exc = ""
        /\ Len(last.out) = 1
        /\ last.out[1].kind = "Component"
        /\ last.out[1].parent = last.caller
        /\ ResolvedClass(last.out[1].cls)

\* C8 witness: each of the three ways in turn is needed somewhere; this one is
\* a registered selector resolved to the class registered for it
C8_Witness ==
    /\ last.op = "get_component"
    /\ last.sel.t = "str"
    /\ last.sel.s \in DOMAIN last.store
    /\ Len(last.out) = 1
    /\ classes[last.out[1].cls].name = "Modal"

\* C9: get_components returns one component per matched element, in element
\* order, all of the resolved class, the i-th with _find_by 'index_position'
\* and _index_position i; the empty list when no element is found.
C9_GetComponentsIndexed ==
    last.op = "get_components" =>
        /\ last.exc = ""
        /\ Len(last.out) = last.elements
        /\ \A i \in 1..Len(last.out) :
               /\ last.out[i].kind = "Component"
               /\ last.out[i].find_by = "index_position"
               /\ last.out[i].index_position = i - 1
               /\ last.out[i].cls = last.out[1].cls
               /\ ResolvedClass(last.out[i].cls)

\* C9 witness: two or more elements matched a selector that was no registry key
C9_Witness ==
    /\ last.op = "get_components"
    /\ last.sel.t = "str"
    /\ last.sel.s \notin DOMAIN last.store
    /\ Len(last.out) >= 2
    /\ last.out[2].index_position = 1

\* C10 as stated: after a page constructor returns, the browser location
\* (query string removed) equals the page's url, and driver.get was called
\* exactly when the location differed from the url beforehand.
C10_LocationIsUrl ==
    (last.op = "Page" /\ last.exc = "") =>
        /\ location(current_url) = classes[last.cls].url
        /\ last.nav <=> location(last.pre) # classes[last.cls].url

\* C10 amended: after a page constructor returns, the browser location (query
\* string removed) equals the page's url with its query string removed, and
\* driver.get was called exactly when the location differed from the url
\* beforehand.
C10_LocationIsUrlLocation ==
    (last.op = "Page" /\ last.exc = "") =>
        /\ location(current_url) = split0(classes[last.cls].url, "?")
        /\ last.nav <=> location(last.pre) # classes[last.cls].url

\* C10 witness: the browser was at the page's url with a query string and
\* the constructor left it there
C10_Witness ==
    /\ last.op = "Page" /\ last.exc = ""
    /\ HasQuery(last.pre)
    /\ location(last.pre) = classes[last.cls].url
    /\ ~last.nav
    /\ current_url = last.pre

\* C11: click takes a selenium WebElement as selector: given one whose
\* element is clickable it clicks that element and returns by the usual
\* rules (the caller, a new page or the opens component), raising nothing.
C11_ClickTakesWebElement ==
    (last.op = "click" /\ last.sel.t = "elem" /\ last.element = "clickable"
        /\ last.opens.t # "inst") =>
        /\ last.clicked
        /\ last.exc = ""
        /\ (last.ref = last.caller \/ Len(last.out) = 1)

\* ------------------------------------------------------------------ claims of flow.py
\* the calls of func that raised one of errors
Failed(w) == {i \in 1..Len(w.calls) : w.calls[i].outcome \in errors}

\* every call of func made so far raised one of errors
AllFailed(w) == Failed(w) = 1..Len(w.calls)

\* C12: the retry wrapper passes the caller's arguments to every call of
\* func; when the first k calls raised one of errors and k < attempts it
\* calls func once more, and when that call returns the wrapper returns its
\* value, func having been called exactly k+1 times.
C12_RetryReturnsFirstSuccess ==
    wrapper.kind = "retry" =>
        /\ \A i \in 1..Len(wrapper.calls) : wrapper.calls[i].args = wrapper.args
        /\ (AllFailed(wrapper) /\ Len(wrapper.calls) < wrapper.attempts) =>
               (wrapper.pc = "while" /\ wrapper.retries # 0)
        /\ \A k \in 0..(Len(wrapper.calls) - 1) :
               (k < wrapper.attempts /\ (\A i \in 1..k : i \in Failed(wrapper))
                    /\ wrapper.calls[k + 1].outcome = "return") =>
                   /\ wrapper.pc = "done"
                   /\ Len(wrapper.calls) = k + 1
                   /\ wrapper.returned
                   /\ wrapper.value = test_func(wrapper.args)

\* C12 witness: two calls raised, the third returned and its value came back
C12_Witness ==
    /\ wrapper.kind = "retry" /\ wrapper.pc = "done"
    /\ Len(wrapper.calls) = 3
    /\ Failed(wrapper) = {1, 2}
    /\ wrapper.returned
    /\ wrapper.value = <<"args", "1", "2", "3">>

\* C13 (safety): the retry wrapper never calls func more than attempts
\* times; when every call raised one of errors it ends only after exactly
\* attempts calls, and then by raising an error, never by returning a value.
C13_Bounded ==
    wrapper.kind = "retry" =>
        /\ Len(wrapper.calls) <= wrapper.attempts
        /\ (AllFailed(wrapper) /\ wrapper.pc = "done") =>
               /\ Len(wrapper.calls) = wrapper.attempts
               /\ ~wrapper.returned
               /\ wrapper.exc # ""

\* C13: if func raises one of errors on every attempt, the retry wrapper
\* calls func exactly attempts times and then terminates by raising an error
\* to the caller; it never returns a value and never loops beyond attempts
\* calls.
C13_RetryGivesUp ==
    /\ []C13_Bounded
    /\ (wrapper.kind = "retry" /\ wrapper.pc = "while") ~> (wrapper.pc = "done")

\* C13 witness: func raised on each of three attempts and the wrapper raised
C13_Witness ==
    /\ wrapper.kind = "retry" /\ wrapper.pc = "done"
    /\ wrapper.attempts = 3
    /\ Len(wrapper.calls) = 3
    /\ AllFailed(wrapper)
    /\ wrapper.exc # ""

\* C14: the ignore wrapper calls func exactly once with the caller's
\* arguments; it returns func's result when func returns, returns None when
\* func raises one of errors, and raises func's exception when that is not
\* one of errors.
C14_IgnoreSwallowsErrors ==
    (wrapper.kind = "ignore" /\ wrapper.pc = "done") =>
        /\ Len(wrapper.calls) = 1
        /\ wrapper.calls[1].args = wrapper.args
        /\ wrapper.calls[1].outcome = "return" =>
               (wrapper.returned /\ wrapper.value = test_func(wrapper.args))
        /\ wrapper.calls[1].outcome \in errors =>
               (wrapper.returned /\ wrapper.value = None /\ wrapper.exc = "")
        /\ wrapper.calls[1].outcome \notin errors \cup {"return"} =>
               (~wrapper.returned /\ wrapper.exc = wrapper.calls[1].outcome)

\* C14 witness: func raised RuntimeError, which is not ignored, and the
\* wrapper raised it
C14_Witness ==
    /\ wrapper.kind = "ignore" /\ wrapper.pc = "done"
    /\ wrapper.calls[1].outcome = "RuntimeError"
    /\ wrapper.exc = "RuntimeError"

\* ------------------------------------------------------------------ claims of browser.py
\* C15: the browser property returns the browser started most recently, the
\* last element of browsers (which _driver names too); when no browser has
\* been started it raises AttributeError.
C15_BrowserIsLastStarted ==
    run.op = "browser" =>
        IF testcase.browsers = <<>>
        THEN run.exc = "AttributeError" /\ run.out = NoBrowser
        ELSE /\ run.exc = ""
             /\ run.out = testcase.browsers[Len(testcase.browsers)]
             /\ run.out = testcase._driver
             /\ \A i \in 1..Len(testcase.browsers) :
                    testcase.browsers[i].id <= run.out.id

\* C15 witness: two browsers were started and the property gave the second
C15_Witness ==
    /\ run.op = "browser"
    /\ Len(testcase.browsers) = 2
    /\ run.out.id = 2

\* the least n with n * w >= b: ceil(b / w)
Ceil(b, w) == CHOOSE n \in 0..b : n * w >= b /\ \A k \in 0..(n - 1) : k * w < b

\* the screenshots due for the browser of index idx
PagesDue(idx) ==
    IF run.heights[idx + 1] = Unreadable THEN 0
    ELSE Ceil(run.heights[idx + 1].body, run.heights[idx + 1].window)

\* the calls the wrapper made of the browser of index idx, in order
CallsOf(idx) == SelectSeq(run.log, LAMBDA e : e.browser = idx)

\* C16: when the wrapped method raises, the wrapper goes through the
\* browsers in order of index; of the browser idx it takes
\* ceil(body_height / window_height) screenshots, the i-th after scrolling
\* to i * window_height and saved as <SNAPSHOT_PATH>/<id>_browser-<idx>_page-<i>.png,
\* and none, without scrolling, when a height cannot be read.
C16_SnapshotsPerBrowser ==
    (run.op = "snapshot_on_error" /\ run.method.raised) =>
        /\ \A j, k \in 1..Len(run.log) :
               j < k => run.log[j].browser <= run.log[k].browser
        /\ \A j \in 1..Len(run.log) :
               run.log[j].browser \in 0..(Len(testcase.browsers) - 1)
        /\ \A idx \in 0..(Len(testcase.browsers) - 1) :
               /\ Len(CallsOf(idx)) = 2 * PagesDue(idx)
               /\ \A i \in 0..(PagesDue(idx) - 1) :
                      /\ CallsOf(idx)[2 * i + 1] =
                             Event("execute_script", idx,
                                   i * run.heights[idx + 1].window, NoFile)
                      /\ CallsOf(idx)[2 * i + 2] =
                             Event("get_screenshot_as_file", idx, -1,
                                   File(SNAPSHOT_PATH, test_id, idx, i))

\* C16 witness: the first browser could not be read, the second has a body
\* of height 3 in a window of height 2 and was photographed twice
C16_Witness ==
    /\ run.op = "snapshot_on_error" /\ run.method.raised
    /\ Len(testcase.browsers) = 2
    /\ run.heights[1] = Unreadable
    /\ run.heights[2] = [body |-> 3, window |-> 2]
    /\ Len(run.log) = 4
    /\ run.log[3].offset = 2
    /\ run.log[4].file.page = 1

\* C17: when the wrapped method raises, the wrapper raises an exception of
\* the same type to its caller, whatever the exception was built from; when
\* the method returns the wrapper takes no screenshot and raises nothing.
C17_SameTypeRaised ==
    run.op = "snapshot_on_error" =>
        /\ run.method.raised => run.exc = run.method.type
        /\ ~run.method.raised => (run.log = <<>> /\ run.exc = "")

\* ------------------------------------------------------------------ claims of email_client.py
\* the logouts, connection creations, logins, queries and fetches of the
\* last call, in the order they were made
Dance ==
    SelectSeq(imap.log,
              LAMBDA e : e.call \in {"logout", "IMAPClient", "login", "gmail_search", "fetch"})

\* the messages the last gmail_search was answered with
Answered == gmail.messages_for_this_session[Len(gmail.messages_for_this_session)]

\* C18: a gmail_search call logs the current connection out, creates a
\* connection and logs in, queries Gmail, logs out, creates another
\* connection and logs in, and fetches the messages of the answer once, in
\* this order (2 logouts and 2 logins); it returns one parsed email for each
\* message fetched.
C18_LoginLogoutDance ==
    imap.op = "gmail_search" =>
        /\ [i \in 1..Len(Dance) |-> Dance[i].call] =
               <<"logout", "IMAPClient", "login", "gmail_search",
                 "logout", "IMAPClient", "login", "fetch">>
        /\ Dance[2].conn = Dance[1].conn + 1
        /\ \A i \in {3, 4, 5} : Dance[i].conn = Dance[2].conn
        /\ Dance[6].conn = Dance[2].conn + 1
        /\ \A i \in {7, 8} : Dance[i].conn = Dance[6].conn
        /\ Dance[8].messages = Answered
        /\ Len(imap.out) = Len(Dance[8].messages)
        /\ \A i \in 1..Len(imap.out) :
               imap.out[i] = message_from_string(Dance[8].messages[i])

\* C18 witness: the query was answered with two messages and two emails
\* came back
C18_Witness ==
    /\ imap.op = "gmail_search"
    /\ Answered = <<1, 2>>
    /\ Len(imap.out) = 2

\* C19: once the client is constructed, and after every gmail_search, the
\* connection the client holds has been logged in with the stored email
\* address and password and has INBOX selected; every connection that was
\* replaced was logged out, and logged out before the connection replacing
\* it was created.
C19_ConnectionLoggedIn ==
    gmail.client # 0 =>
        /\ gmail.client = Len(connections)
        /\ connections[gmail.client].login = <<gmail.email_address, gmail.password>>
        /\ connections[gmail.client].folder = "INBOX"
        /\ \A c \in 1..(gmail.client - 1) : connections[c].logged_out
        /\ imap.op = "gmail_search" =>
               \A p \in 1..Len(imap.log) :
                   imap.log[p].call = "IMAPClient" =>
                       \E q \in 1..(p - 1) :
                           /\ imap.log[q].call = "logout"
                           /\ imap.log[q].conn = imap.log[p].conn - 1

\* C19 witness: two gmail_search calls have completed and the client holds
\* its fifth connection
C19_Witness ==
    /\ imap.op = "gmail_search"
    /\ gmail.client = 5
    /\ connections[5].login = <<"email", "password">>
    /\ connections[4].logged_out

\* C20: delete_seen_messages asks for the deletion of exactly the message
\* ids that the search and gmail_search calls made so far have returned, and
\* then expunges.
C20_DeletesWhatWasSeen ==
    imap.op = "delete_seen_messages" =>
        /\ [i \in 1..Len(imap.log) |-> imap.log[i].call] = <<"delete_messages", "expunge">>
        /\ UNION {Ids(imap.log[1].lists[i]) : i \in 1..Len(imap.log[1].lists)}
               = imap.returned

\* C21: is_headless returns true only when a virtual display has been
\* started for the test case, and false on a plain BrowserTestCase for which
\* no display was ever started.
C21_HeadlessMeansDisplay ==
    run.op = "is_headless" =>
        /\ run.answer => testcase.displays > 0
        /\ (testcase.cls = "BrowserTestCase" /\ testcase.displays = 0) => ~run.answer

\* C22: HeadlessBrowserTestCase.start_browser, called with a driver selenium
\* has, starts a virtual display when the test case has none yet, never
\* more than one per test case, and on return _driver and the last element
\* of browsers are the driver just created.
C22_HeadlessStartsDisplay ==
    /\ testcase.displays <= 1
    /\ (run.op = "start_browser" /\ testcase.cls = "HeadlessBrowserTestCase"
            /\ run.driver \in webdriver) =>
           /\ run.exc = ""
           /\ testcase._display = Display
           /\ testcase.displays = 1
           /\ run.out # NoBrowser
           /\ testcase._driver = run.out
           /\ testcase.browsers # <<>>
           /\ testcase.browsers[Len(testcase.browsers)] = run.out

\* ------------------------------------------------------------------ claims of enter_text
\* the places in the log of the send_keys calls, of the values read back
\* and of the clears that worked
Sends == {p \in 1..Len(entry.log) : entry.log[p].call = "send_keys"}
ReadsBack == {p \in 1..Len(entry.log) :
                 entry.log[p].call = "get_attribute" /\ ~entry.log[p].raised}
Clears == {p \in 1..Len(entry.log) :
              entry.log[p].call = "clear" /\ ~entry.log[p].raised}

\* enter_text found the element and is typing, or has typed
Typing == entry.pc # "idle" /\ entry.exc # "TimeoutException"

\* send_keys gets the items of the text, at most 5 times; a value read back
\* that equals the text ends the call at once, by a return; the element is
\* cleared between two send_keys
TypesAndChecks ==
    /\ Cardinality(Sends) <= 5
    /\ \A p \in Sends : entry.log[p].args = entry.text
    /\ \A p \in ReadsBack :
           entry.log[p].result = join(entry.text) =>
               (p = Len(entry.log) /\ entry.pc = "done" /\ entry.returned)
    /\ \A p, q \in Sends : p < q => \E c \in Clears : p < c /\ c < q

\* the value was read back after the 5th send_keys and is not the text
FifthFailed ==
    /\ Cardinality(Sends) = 5
    /\ \E p \in ReadsBack :
           /\ \A q \in Sends : q < p
           /\ entry.log[p].result # join(entry.text)

\* C23 as stated: enter_text calls send_keys with the items of the text at
\* most 5 times, returns as soon as the value read back equals the text,
\* clears the element before each further attempt, and raises AssertionError
\* when the value still does not match after the 5th attempt.
C23_EnterTextRetries ==
    Typing =>
        /\ TypesAndChecks
        /\ (entry.pc = "done" /\ FifthFailed) => entry.exc = "AssertionError"

\* C23 amended: as stated, but AssertionError is raised when the value still
\* does not match after the 5th attempt and the element was cleared after
\* every attempt; when reading the value finds the element stale, or when
\* clearing the element fails, enter_text returns at once without raising.
C23_EnterTextRetriesWhileClearable ==
    Typing =>
        /\ TypesAndChecks
        /\ (entry.pc = "done" /\ FifthFailed /\ Cardinality(Clears) = 5) =>
               entry.exc = "AssertionError"
        /\ (entry.log # <<>> /\ entry.log[Len(entry.log)].raised) =>
               (entry.pc = "done" /\ entry.returned /\ entry.exc = "")
        /\ entry.exc = "AssertionError" => (FifthFailed /\ Cardinality(Clears) = 5)

\* C23 witness: five attempts, each leaving the text short of a character and
\* each cleared, ended in AssertionError
C23_Witness ==
    /\ entry.pc = "done"
    /\ entry.exc = "AssertionError"
    /\ Cardinality(Sends) = 5
    /\ Cardinality(Clears) = 5
    /\ entry.log[2].result = <<"t">>

C25_DynamicComponentRegistered ==
    (last.op = "get_component" /\ last.sel.t = "str" /\ last.sel.s # Empty) =>
        LET s == last.sel.s
            c == last.out[1].cls
        IN  IF s \notin DOMAIN last.store
            THEN /\ Len(classes) = last.n0 + 1
                 /\ c = last.n0 + 1
                 /\ classes[c] = Class("Component", "DynamicComponent", None, s)
                 /\ DOMAIN store = DOMAIN last.store \cup {s}
                 /\ Cardinality(DOMAIN store) = Cardinality(DOMAIN last.store) + 1
                 /\ store[s] = c
                 /\ \A k \in DOMAIN last.store : store[k] = last.store[k]
            ELSE /\ c = last.store[s]
                 /\ store = last.store
                 /\ Len(classes) = last.n0

\* C25 witness: a later resolution of a selector that an earlier one made a
\* DynamicComponent for, returning that class with the registry unchanged
C25_Witness ==
    /\ last.op = "get_component"
    /\ last.sel = StrArg(BtnSel)
    /\ BtnSel \in DOMAIN last.store
    /\ classes[last.out[1].cls] = Class("Component", "DynamicComponent", None, BtnSel)
    /\ last.out[1].cls = store[BtnSel]
    /\ store = last.store

\* the class stored under each key declares that key as its url or, with no
\* url of its own, as its selector
KeysDeclared ==
    \A k \in DOMAIN store :
        LET c == classes[store[k]]
        IN  c.url = k \/ (~Truthy(c.url) /\ c.selector = k)

\* C26: whatever classes are defined, selectors looked up and keys deleted,
\* every key of the one registry that pages and components share maps to a
\* class that itself declares the key as its url or, declaring no url, as
\* its selector, and a key once in the registry is never absent afterwards.
C26_RegistryKeysDeclaredAndKept ==
    []KeysDeclared /\ [][DOMAIN store \subseteq DOMAIN store']_vars

\* C26 witness: a key was deleted and is still there, in a registry that
\* holds a page class and a component class, after a later class took the
\* key of Modal and a class declaring nothing was defined
C26_Witness ==
    /\ last.op = "__delitem__"
    /\ last.sel.s \in DOMAIN last.store
    /\ last.sel.s \in DOMAIN store
    /\ classes[store[HomeUrl]] = HomePage
    /\ classes[store[ModalSel]] = ModalDialog
    /\ \E c \in 1..Len(classes) : classes[c] = Modal
====
